---- MODULE Spec2Model ----
(***************************************************************************)
(* Model of src/app.py: the polling job fetch_emails (retry loop, IMAP     *)
(* session, ordering, classification, extraction, Redis writes), the       *)
(* APScheduler interval job that runs it, and the query handler            *)
(* retrieve_email_code that reads the same Redis store.                    *)
(*                                                                         *)
(* Text is modelled as a sequence of chunks (a chunk is a run of           *)
(* characters); concatenation is \o, lower-casing is chunk-wise, substring *)
(* search is a search for a contiguous run of chunks and a whitespace      *)
(* chunk is " ".                                                           *)
(***************************************************************************)
EXTENDS Integers, Sequences, FiniteSets, TLC

\* ------------------------------------------------------------------ bounds
MaxMsgs == 2
ClockMsgs == 2
ClockKinds == 2
MaxTicks == 3
Workers == 2

\* ------------------------------------------------------- program constants
retries == 3
retry_delay == 5
ex == 172800
max_instances == 1

\* None, the empty string and the empty list: all of them are falsy in the code
None == <<>>

\* --------------------------------------------------------------------- text
LowerChunk(c) ==
  CASE c = "USER@Example.com" -> "user@example.com"
    [] c = "Verification" -> "verification"
    [] c = "Code" -> "code"
    [] c = "Is" -> "is"
    [] c = "Your" -> "your"
    [] c = "Activate" -> "activate"
    [] c = "Account" -> "account"
    [] c = "Hello" -> "hello"
    [] c = "HTTPS://Seller-US-Accounts.TikTok.com/profile/activate-page"
         -> "https://seller-us-accounts.tiktok.com/profile/activate-page"
    [] OTHER -> c

\* a lower() that leaves the text as it is
LowerMissing(s) == s

\* str.lower()
Lower(s) == [i \in 1..Len(s) |-> LowerChunk(s[i])]

\* pat in s
Contains(s, pat) ==
  \E i \in 0..(Len(s) - Len(pat)) : SubSeq(s, i + 1, i + Len(pat)) = pat

\* s.endswith(suffix)
EndsWith(s, suffix) ==
  /\ Len(s) >= Len(suffix)
  /\ SubSeq(s, Len(s) - Len(suffix) + 1, Len(s)) = suffix

\* s.split()[0]: the first maximal run of non-whitespace chunks
FirstToken(s) ==
  LET starts == {i \in 1..Len(s) : s[i] # " "}
      b == CHOOSE i \in starts : \A j \in starts : i <= j
      ends == {i \in b..Len(s) : \A j \in b..i : s[j] # " "}
      e == CHOOSE i \in ends : \A j \in ends : j <= i
  IN  SubSeq(s, b, e)

UnescapeChunk(c) ==
  CASE c = "&amp;" -> "&"
    [] c = "&#61;" -> "="
    [] OTHER -> c

\* html.unescape(s)
Unescape(s) == [i \in 1..Len(s) |-> UnescapeChunk(s[i])]

VerifPattern == <<"verification", " ", "code">>
ActivPattern == <<"activate", " ", "your", " ", "account">>
ActivPrefix == "https://seller-us-accounts.tiktok.com/profile/activate-page"

\* a pattern without the activation prefix
HrefMatchesAny(h) == Len(h) >= 1

\* One href="...": the regular expression matches a target that starts with
\* the activation prefix (case-insensitively) followed by at least one
\* character other than the closing quote.
HrefMatches(h) == Len(h) >= 2 /\ LowerChunk(h[1]) = ActivPrefix

\* re.search(...) on a body, given as the sequence of its href targets:
\* the first matching target, or None.
SearchLink(body) ==
  LET hits == {i \in 1..Len(body) : HrefMatches(body[i])}
  IN  IF hits = {} THEN None
      ELSE body[CHOOSE i \in hits : \A j \in hits : i <= j]

\* ----------------------------------------------------------------- messages
U == "USER@Example.com"
u == "user@example.com"
bob == "bob@example.com"
Other == <<"https://example.com/unsubscribe">>
LinkA == <<ActivPrefix, "?token=abc", "&amp;", "x=1">>
LinkB == <<"HTTPS://Seller-US-Accounts.TikTok.com/profile/activate-page", "?token=def">>
LinkC == <<ActivPrefix, "?token=ghi">>
LinkD == <<ActivPrefix, "?token=jkl">>
Bare == <<ActivPrefix>>

Html(body) == [ctype |-> "text/html", body |-> body]
Plain(body) == [ctype |-> "text/plain", body |-> body]
Mk(to, subject, date, parts) ==
  [to |-> to, subject |-> subject, date |-> date, parts |-> parts]

\* The unread messages the search can return.  subject is the Subject header
\* as decode_header yields it (a sequence of decoded chunks of text) or None;
\* to is the To header or None; date is <<t>>, t the instant the Date header
\* parses to, or None for a header that is missing or does not parse; parts is
\* what msg.walk() yields.
Messages == <<
  Mk(<<U>>, << <<"482913", " ", "is", " ", "your", " ", "verification", " ", "code">> >>, <<1>>, <<Plain(<<>>)>>),
  Mk(<<U>>, << <<"Activate", " ", "Your", " ", "Account">> >>, <<1>>, <<Plain(<<LinkD>>), Html(<<Other, LinkA>>)>>),
  Mk(<<u>>, << <<"731055", " ", "Is", " ", "Your", " ", "Verification", " ", "Code">> >>, <<2>>, <<Plain(<<>>)>>),
  Mk(<<u>>, << <<"activate", " ", "your", " ", "account", " ", "now">> >>, <<2>>, <<Html(<<Other>>), Html(<<LinkB>>), Html(<<LinkC, LinkD>>)>>),
  Mk(<<u>>, << <<"906614", " ", "is", " ", "your", " ", "verification", " ", "code">> >>, <<2>>, <<Plain(<<>>)>>),
  Mk(<<u>>, << <<"Activate", " ", "Your", " ", "Account">> >>, <<3>>, <<Html(<<Other, Bare>>)>>),
  Mk(<<bob>>, << <<"Hello">> >>, <<2>>, <<Html(<<LinkA>>)>>),
  Mk(<<bob>>, << <<"550011", " ", "verification", " ", "code", " ", "to", " ", "activate", " ", "your", " ", "account">> >>, <<2>>, <<Html(<<LinkA>>)>>),
  Mk(None, << <<"482913", " ", "is", " ", "your", " ", "verification", " ", "code">> >>, <<1>>, <<Plain(<<>>)>>),
  Mk(<<U>>, << <<"*">>, <<" ", "640021", " ", "is", " ", "your", " ", "verification", " ", "code">> >>, <<3>>, <<Plain(<<>>)>>),
  Mk(<<u>>, << <<"112233", " ", "is", " ", "your", " ", "verification", " ", "code">> >>, None, <<Plain(<<>>)>>),
  Mk(<<u>>, None, <<1>>, <<Html(<<LinkA>>)>>)
>>

MsgIds == 1..Len(Messages)

\* the sequences of at most n distinct messages among the first kinds ones
Mailboxes(n, kinds) ==
  {s \in UNION {[1..k -> 1..kinds] : k \in 0..n} :
     \A i, j \in 1..Len(s) : i # j => s[i] # s[j]}

\* -------------------------------------------------------------------- state
VARIABLES
  mailbox,    \* the messages of the inbox that match the search's subject and
              \* body criteria, in server order
  readwrite,  \* whether the server opens the inbox read-write for the account
  seen,       \* the positions of mailbox whose \Seen flag the server has set
  store,      \* Redis: key -> [val, exp]
  now,        \* the clock, in seconds
  ticks,      \* how many times the clock has advanced
  job,        \* per scheduler worker thread: the state of its run of fetch_emails
  open,       \* the IMAP sessions logged in and not yet logged out: <<worker, attempt>>
  written,    \* history: key -> the time of the last write to it
  first       \* history: the passes completed (0, 1, 2 for more) and the values
              \* of the store when the first of them completed

vars == <<mailbox, readwrite, seen, store, now, ticks, job, open, written, first>>

W == 1..Workers

IdleJob ==
  [pc |-> "idle", attempt |-> 0, imap_session |-> FALSE, email_ids |-> <<>>,
   email_list |-> <<>>, idx |-> 0, part |-> 0, exit |-> "none", log |-> <<>>, result |-> "none",
   attWrites |-> 0, msgWrites |-> 0, waited |-> 0]

\* the keys the loop can write: f'{email_to}-verify', f'{email_to}-activate'
Key(email_to, suffix) == email_to \o <<suffix>>

Keys ==
  {Key(Lower(Messages[i].to), sfx) :
     i \in {j \in MsgIds : Messages[j].to # None}, sfx \in {"-verify", "-activate"}}

NoEntry == [val |-> None, exp |-> 0]

InitWith(boxes, modes) ==
  /\ mailbox \in boxes
  /\ readwrite \in modes
  /\ seen = {}
  /\ store = [k \in Keys |-> NoEntry]
  /\ now = 0
  /\ ticks = 0
  /\ job = [w \in W |-> IdleJob]
  /\ open = {}
  /\ written = [k \in Keys |-> -1]
  /\ first = [n |-> 0, vals |-> [k \in Keys |-> None]]

\* every mailbox of up to MaxMsgs messages, on a server that opens the inbox
\* read-write (the rule) or read-only
Init == InitWith(Mailboxes(MaxMsgs, Len(Messages)), BOOLEAN)

\* ------------------------------------------------------------------- Redis
\* redis_client.set(key, value, ex=seconds): the entry replaces the key's
\* previous one and expires `seconds` after the write
Set(st, key, value, seconds) ==
  [st EXCEPT ![key] = [val |-> value, exp |-> now + seconds]]

\* redis_client.get(key): None for a key never set or expired (Redis expires
\* a key once the clock is past its expiry time)
Get(st, key) ==
  IF key \in Keys /\ st[key].val # None /\ ~(now > st[key].exp)
  THEN st[key].val
  ELSE None

\* ------------------------------------------------------------ fetch_emails
\* email_list.sort(key=lambda x: x[0]): ascending by parsed_date, stable
InsertByDate(e, s) ==
  LET le == {i \in 1..Len(s) : s[i].parsed_date <= e.parsed_date}
      k == IF le = {} THEN 0 ELSE CHOOSE i \in le : \A j \in le : j <= i
  IN  SubSeq(s, 1, k) \o <<e>> \o SubSeq(s, k + 1, Len(s))

\* a sort that is missing: the messages stay in server order
SortByDateMissing(s) == s

RECURSIVE SortByDate(_)
SortByDate(s) ==
  IF s = <<>> THEN <<>>
  ELSE InsertByDate(s[Len(s)], SortByDate(SubSeq(s, 1, Len(s) - 1)))

\* decode_header(msg['Subject'])[0][0]: the first decoded chunk of the header
DecodeSubject(m) == m.subject[1]

IsVerification(email_subject) == Contains(Lower(email_subject), VerifPattern)
IsActivation(email_subject) == Contains(Lower(email_subject), ActivPattern)

\* the activation test made first
ClassifyActivationFirst(email_subject) ==
  IF IsActivation(email_subject) THEN "activate"
  ELSE IF IsVerification(email_subject) THEN "verify"
  ELSE "none"

\* if 'verification code' in ... / elif 'activate your account' in ...
Classify(email_subject) ==
  IF IsVerification(email_subject) THEN "verify"
  ELSE IF IsActivation(email_subject) THEN "activate"
  ELSE "none"

Msg(email_id) == Messages[mailbox[email_id]]

\* the state of the loop at the top of an attempt
StartAttempt(j, n) ==
  [j EXCEPT !.pc = "connect", !.attempt = n, !.imap_session = FALSE,
            !.email_ids = <<>>, !.email_list = <<>>, !.idx = 0, !.part = 0, !.exit = "none",
            !.attWrites = 0, !.msgWrites = 0]

\* fetch_emails has returned (result "returned") or an exception left it
\* (result "raised"); the history fields log, result, waited and email_ids
\* remain
EndPass(j, outcome, result) ==
  [IdleJob EXCEPT !.log = Append(j.log, outcome), !.result = result,
                  !.waited = j.waited, !.email_ids = j.email_ids]

\* a range that is one attempt too long
NextAttemptOneMore(j, outcome) ==
  IF j.attempt + 1 <= retries
  THEN [StartAttempt(j, j.attempt + 1) EXCEPT !.log = Append(j.log, outcome)]
  ELSE EndPass(j, outcome, "returned")

\* the bottom of the for loop: the next attempt, or the end of the range
NextAttempt(j, outcome) ==
  IF j.attempt + 1 < retries
  THEN [StartAttempt(j, j.attempt + 1) EXCEPT !.log = Append(j.log, outcome)]
  ELSE EndPass(j, outcome, "returned")

\* an except block with no finally block after it
ExceptNoFinally(j) == NextAttempt(j, "failed")

\* except Exception: sleep before the finally block unless this was the last
\* attempt
Except(j) ==
  [j EXCEPT !.exit = "except",
            !.pc = IF j.attempt < retries - 1 THEN "sleep" ELSE "finally"]

\* the loop over email_list moves to the next message, or breaks out
NextMessage(j) ==
  IF j.idx < Len(j.email_list)
  THEN [j EXCEPT !.pc = "process", !.idx = j.idx + 1, !.part = 0, !.msgWrites = 0]
  ELSE [j EXCEPT !.pc = "finally", !.exit = "break"]

Running == {w \in W : job[w].pc # "idle"}

\* scheduler.add_job(fetch_emails, 'interval', seconds=30): a firing of the
\* timer starts a run on a free worker thread while fewer than max_instances
\* runs of the job are in progress
RunsOverlap == Cardinality(Running) < Workers

MayStart == Cardinality(Running) < max_instances

StartPass ==
  /\ MayStart
  /\ W \ Running # {}
  /\ LET w == CHOOSE x \in W \ Running : \A y \in W \ Running : x <= y
     IN  job' = [job EXCEPT ![w] = StartAttempt(IdleJob, 0)]
  /\ UNCHANGED <<mailbox, readwrite, seen, store, now, ticks, open, written, first>>

\* ... and is skipped otherwise
SkipPass ==
  /\ ~MayStart
  /\ UNCHANGED vars

TimerFire == StartPass \/ SkipPass

\* connect_to_imap(): a session, None after imaplib.IMAP4.error, or any other
\* exception (which nothing in fetch_emails catches)
Connect(w) ==
  /\ job[w].pc = "connect"
  /\ \E outcome \in {"session", "None", "raise"} :
       CASE outcome = "session" ->
              /\ job' = [job EXCEPT ![w].pc = "select", ![w].imap_session = TRUE]
              /\ open' = open \cup {<<w, job[w].attempt>>}
         [] outcome = "None" ->
              /\ job' = [job EXCEPT ![w] = NextAttempt(job[w], "noconn")]
              /\ UNCHANGED open
         [] outcome = "raise" ->
              /\ job' = [job EXCEPT ![w] = EndPass(job[w], "raised", "raised")]
              /\ UNCHANGED open
  /\ UNCHANGED <<mailbox, readwrite, seen, store, now, ticks, written, first>>

\* imap_session.select('inbox')
Select(w) ==
  /\ job[w].pc = "select"
  /\ \E ok \in BOOLEAN :
       job' = [job EXCEPT ![w] = IF ok THEN [job[w] EXCEPT !.pc = "search"]
                                 ELSE Except(job[w])]
  /\ UNCHANGED <<mailbox, readwrite, seen, store, now, ticks, open, written, first>>

\* the answer to SEARCH UNSEEN (...): the positions not flagged \Seen, ascending
Unseen ==
  LET S == {i \in 1..Len(mailbox) : i \notin seen}
  IN  CHOOSE s \in [1..Cardinality(S) -> S] :
        \A i, j \in 1..Cardinality(S) : i < j => s[i] < s[j]

\* imap_session.search(...); return when there are no email_ids
Search(w) ==
  /\ job[w].pc = "search"
  /\ \E ok \in BOOLEAN :
       job' = [job EXCEPT ![w] =
                 IF ~ok THEN Except(job[w])
                 ELSE IF Unseen = <<>>
                      THEN [job[w] EXCEPT !.pc = "finally", !.exit = "return"]
                      ELSE [job[w] EXCEPT !.pc = "fetch", !.email_ids = Unseen]]
  /\ UNCHANGED <<mailbox, readwrite, seen, store, now, ticks, open, written, first>>

\* FETCH email_id (RFC822) in the mailbox selected by select('inbox'): RFC822
\* is BODY[], which sets the \Seen flag of the message when the server has
\* opened the mailbox read-write and leaves it when read-only
FetchRFC822(email_id) == IF readwrite THEN seen \cup {email_id} ELSE seen

\* one turn of the loop over email_ids: fetch, parse, decode the subject,
\* parse the date, append; after the last one, the sort
Fetch(w) ==
  /\ job[w].pc = "fetch"
  /\ LET j == job[w]
         email_id == j.email_ids[Len(j.email_list) + 1]
         msg == Msg(email_id)
     IN  \E ok \in BOOLEAN :
           /\ job' = [job EXCEPT ![w] =
                IF ~ok \/ msg.subject = None \/ msg.date = None
                THEN Except(j)
                ELSE LET l == Append(j.email_list,
                                     [parsed_date |-> msg.date[1],
                                      email_subject |-> DecodeSubject(msg),
                                      email_id |-> email_id])
                     IN  IF Len(l) < Len(j.email_ids)
                         THEN [j EXCEPT !.email_list = l]
                         ELSE [j EXCEPT !.email_list = SortByDate(l),
                                        !.pc = "process", !.idx = 1]]
           /\ seen' = IF ok THEN FetchRFC822(email_id) ELSE seen
  /\ UNCHANGED <<mailbox, readwrite, store, now, ticks, open, written, first>>

\* a write that appends to the value it finds
WriteAppend(st, key, value) == Set(st, key, st[key].val \o value, ex)

\* a write that expires after one day
WriteOneDay(st, key, value) == Set(st, key, value, ex \div 2)

\* redis_client.set(key, value, ex=172800)
Write(st, key, value) == Set(st, key, value, ex)

Values(st) == [k \in Keys |-> st[k].val]

\* one turn of the loop over email_list, up to the walk over the parts
Process(w) ==
  /\ job[w].pc = "process"
  /\ LET j == job[w]
         e == j.email_list[j.idx]
         msg == Msg(e.email_id)
     IN  IF msg.to = None
         THEN /\ job' = [job EXCEPT ![w] = Except(j)]
              /\ UNCHANGED <<store, written>>
         ELSE IF Classify(e.email_subject) = "verify"
         THEN \E ok \in BOOLEAN :
                IF ok
                THEN LET key == Key(Lower(msg.to), "-verify")
                     IN  /\ store' = Write(store, key, FirstToken(e.email_subject))
                         /\ written' = [written EXCEPT ![key] = now]
                         /\ job' = [job EXCEPT ![w] =
                                      NextMessage([j EXCEPT !.attWrites = @ + 1,
                                                            !.msgWrites = @ + 1])]
                ELSE /\ job' = [job EXCEPT ![w] = Except(j)]
                     /\ UNCHANGED <<store, written>>
         ELSE IF Classify(e.email_subject) = "activate"
         THEN /\ job' = [job EXCEPT ![w].pc = "walk", ![w].part = 1]
              /\ UNCHANGED <<store, written>>
         ELSE /\ job' = [job EXCEPT ![w] = NextMessage(j)]
              /\ UNCHANGED <<store, written>>
  /\ UNCHANGED <<mailbox, readwrite, seen, now, ticks, open, first>>

\* the walk moves to the next part, or the loop to the next message
NextPart(j, msg) ==
  IF j.part < Len(msg.parts) THEN [j EXCEPT !.part = j.part + 1]
  ELSE NextMessage(j)

\* one turn of the loop over msg.walk() for an activation message
Walk(w) ==
  /\ job[w].pc = "walk"
  /\ LET j == job[w]
         msg == Msg(j.email_list[j.idx].email_id)
         part == msg.parts[j.part]
     IN  IF part.ctype # "text/html"
         THEN /\ job' = [job EXCEPT ![w] = NextPart(j, msg)]
              /\ UNCHANGED <<store, written>>
         ELSE \E ok \in BOOLEAN :
                IF ~ok
                THEN /\ job' = [job EXCEPT ![w] = Except(j)]
                     /\ UNCHANGED <<store, written>>
                ELSE LET match == SearchLink(part.body)
                         key == Key(Lower(msg.to), "-activate")
                     IN  IF match # None
                         THEN /\ store' = Write(store, key, Unescape(match))
                              /\ written' = [written EXCEPT ![key] = now]
                              /\ job' = [job EXCEPT ![w] =
                                           NextPart([j EXCEPT !.attWrites = @ + 1,
                                                              !.msgWrites = @ + 1], msg)]
                         ELSE /\ job' = [job EXCEPT ![w] = NextPart(j, msg)]
                              /\ UNCHANGED <<store, written>>
  /\ UNCHANGED <<mailbox, readwrite, seen, now, ticks, open, first>>

\* time.sleep(retry_delay) in the except block
Sleep(w) ==
  /\ job[w].pc = "sleep"
  /\ job' = [job EXCEPT ![w].pc = "finally", ![w].waited = @ + retry_delay]
  /\ UNCHANGED <<mailbox, readwrite, seen, store, now, ticks, open, written, first>>

\* what the try block's exit makes of the attempt
Outcome(exit) ==
  CASE exit = "break" -> "ok"
    [] exit = "return" -> "empty"
    [] OTHER -> "failed"

\* after the finally block: return, break, or the bottom of the loop
AfterFinally(j) ==
  IF j.exit \in {"break", "return"}
  THEN EndPass(j, Outcome(j.exit), "returned")
  ELSE NextAttempt(j, "failed")

\* finally: imap_session.logout().  imaplib marks the session LOGOUT before it
\* sends the command; an exception of logout leaves fetch_emails.
Finally(w) ==
  /\ job[w].pc = "finally"
  /\ LET j == job[w]
     IN  /\ open' = IF j.imap_session THEN open \ {<<w, j.attempt>>} ELSE open
         /\ \E ok \in BOOLEAN :
              job' = [job EXCEPT ![w] =
                        IF ok THEN AfterFinally(j)
                        ELSE EndPass(j, Outcome(j.exit), "raised")]
         /\ first' = IF j.exit = "break"
                     THEN [n |-> IF first.n < 2 THEN first.n + 1 ELSE 2,
                           vals |-> IF first.n = 0 THEN Values(store) ELSE first.vals]
                     ELSE first
  /\ UNCHANGED <<mailbox, readwrite, seen, store, now, ticks, written>>

\* ---------------------------------------------------- retrieve_email_code
Reply(status, label, text) == [status |-> status, body |-> <<label, text>>]

InvalidFormatNotFound == Reply(404, "error", "Invalid email address format")

InvalidFormat == Reply(400, "error", "Invalid email address format")

retrieve_email_code(email_to) ==
  IF email_to = None
  THEN Reply(400, "error", "Email parameter is required")
  ELSE IF EndsWith(email_to, <<"-verify">>)
  THEN LET verify_code == Get(store, email_to)
       IN  IF verify_code = None
           THEN Reply(404, "error", "Verification code not found")
           ELSE [status |-> 200, body |-> <<"verification_code", verify_code>>]
  ELSE IF EndsWith(email_to, <<"-activate">>)
  THEN LET activate_code == Get(store, email_to)
       IN  IF activate_code = None
           THEN Reply(404, "error", "Activation link not found")
           ELSE [status |-> 200, body |-> <<"activation_link", activate_code>>]
  ELSE InvalidFormat

\* request.args.get('email'): missing, empty, a key, an address, anything else
Params ==
  {None, <<u>>, <<u, "-verify">>, <<u, "-activate">>, <<U, "-verify">>,
   <<"-verify">>, <<u, "-reset">>}

\* GET /retrieveEmailCode?email=...: the handler reads the store and answers
\* retrieve_email_code(email_to); it changes nothing
Query(email_to) ==
  /\ retrieve_email_code(email_to).status \in {200, 400, 404}
  /\ UNCHANGED vars

\* ------------------------------------------------------------------- clock
\* time passes: a second, or a second less than two days
Deltas == {1, 172799}

Tick ==
  /\ ticks < MaxTicks
  /\ \E d \in Deltas : now' = now + d
  /\ ticks' = ticks + 1
  /\ UNCHANGED <<mailbox, readwrite, seen, store, job, open, written, first>>

\* ---------------------------------------------------------- specifications
Pass ==
  \E w \in W :
    \/ Connect(w)
    \/ Select(w)
    \/ Search(w)
    \/ Fetch(w)
    \/ Process(w)
    \/ Walk(w)
    \/ Sleep(w)
    \/ Finally(w)

\* the scheduler and the polling job
Next == TimerFire \/ Pass

Spec == Init /\ [][Next]_vars

\* the polling job, the query endpoint and the clock, on a server that opens
\* the inbox read-write
InitClock == InitWith(Mailboxes(ClockMsgs, ClockKinds), {TRUE})

NextClock ==
  \/ Next
  \/ \E email_to \in Params : Query(email_to)
  \/ Tick

SpecClock == InitClock /\ [][NextClock]_vars

\* ------------------------------------------------------------------ claims
Last(s) == s[Len(s)]

\* a pass on worker w has ended and its last attempt processed every message
Completed(w) ==
  job[w].pc = "idle" /\ job[w].log # <<>> /\ Last(job[w].log) = "ok"

\* what message m yields: the key it is stored under and the values the loop
\* can store for it
HtmlLinks(m) ==
  {Unescape(SearchLink(m.parts[i].body)) :
     i \in {x \in 1..Len(m.parts) : /\ m.parts[x].ctype = "text/html"
                                    /\ SearchLink(m.parts[x].body) # None}}

Extracted(m) ==
  IF m.subject = None \/ m.to = None THEN {}
  ELSE IF Classify(DecodeSubject(m)) = "verify" THEN {FirstToken(DecodeSubject(m))}
  ELSE IF Classify(DecodeSubject(m)) = "activate" THEN HtmlLinks(m)
  ELSE {}

KeyOf(m) ==
  Key(Lower(m.to),
      IF Classify(DecodeSubject(m)) = "verify" THEN "-verify" ELSE "-activate")

\* the messages the last attempt of worker w selected, those of them that
\* yield a value for key k, and the latest of these
Selected(w) == {job[w].email_ids[i] : i \in 1..Len(job[w].email_ids)}

Candidates(w, k) ==
  {i \in Selected(w) : Extracted(Msg(i)) # {} /\ KeyOf(Msg(i)) = k}

Latest(w, k) ==
  {i \in Candidates(w, k) :
     \A x \in Candidates(w, k) : Msg(x).date[1] <= Msg(i).date[1]}

\* C1: when a pass has completed successfully, every key for which the
\* selected messages yield a value holds a value extracted from a message with
\* the latest timestamp among them, whatever the server order of the messages.
C1_LatestWins ==
  \A w \in W :
    Completed(w) =>
      \A k \in Keys :
        Candidates(w, k) # {} =>
          store[k].val \in UNION {Extracted(Msg(i)) : i \in Latest(w, k)}

\* a completed pass over two messages for one key that the server returned
\* newest first
C1_Witness ==
  \E w \in W :
    /\ Completed(w)
    /\ \E k \in Keys :
         \E a, b \in Candidates(w, k) :
           /\ a < b
           /\ Msg(a).date[1] > Msg(b).date[1]
           /\ store[k].val \in Extracted(Msg(a))
           /\ store[k].val \notin Extracted(Msg(b))

\* C2: an attempt that ends in failure has performed no store write.
C2_FailedAttemptWritesNothing ==
  \A w \in W : job[w].exit = "except" => job[w].attWrites = 0

MaxParts ==
  CHOOSE n \in {Len(Messages[i].parts) : i \in MsgIds} :
    \A i \in MsgIds : Len(Messages[i].parts) <= n

\* the steps an attempt in pc can still take, at most
StepsLeft(j) ==
  LET L == Len(mailbox)
      P == MaxParts
  IN  CASE j.pc = "connect" -> L * (P + 2) + 6
        [] j.pc = "select" -> L * (P + 2) + 5
        [] j.pc = "search" -> L * (P + 2) + 4
        [] j.pc = "fetch" -> (L - Len(j.email_list)) + L * (P + 1) + 3
        [] j.pc = "process" -> (L - j.idx + 1) * (P + 1) + 2
        [] j.pc = "walk" ->
             (L - j.idx) * (P + 1)
               + (Len(Msg(j.email_list[j.idx].email_id).parts) - j.part + 1) + 2
        [] j.pc = "sleep" -> 2
        [] j.pc = "finally" -> 1
        [] OTHER -> 0

Rank(j) ==
  IF j.pc = "idle" THEN 0
  ELSE (retries - j.attempt) * (Len(mailbox) * (MaxParts + 2) + 7) + StepsLeft(j)

C3_Budget ==
  \A w \in W :
    LET j == job[w]
        n == Len(j.log)
    IN  /\ j.attempt < retries
        /\ n <= retries
        /\ j.pc # "idle" => n = j.attempt
        /\ \A i \in 1..(n - 1) : j.log[i] \in {"noconn", "failed"}
        /\ j.pc # "idle" => \A i \in 1..n : j.log[i] \in {"noconn", "failed"}
        /\ (j.pc = "idle" /\ n > 0 /\ j.result = "returned")
             => (Last(j.log) \in {"ok", "empty"} \/ n = retries)
        /\ j.pc \in {"select", "search", "fetch", "process", "walk"}
             => <<w, j.attempt>> \in open

C3_Progress ==
  \A w \in W :
    (job[w].pc # "idle" /\ job'[w] # job[w]) => Rank(job'[w]) < Rank(job[w])

\* C3: a pass makes at most 3 attempts, each on a connection of its own; only
\* a failed attempt is followed by another one, and only while fewer than 3
\* have been made; a pass that returns has ended with a successful attempt or
\* made 3; and every step of a pass brings its end closer, so it terminates.
C3_PassTerminates == []C3_Budget /\ [][C3_Progress]_vars

\* a pass has returned after three failed attempts
C3_Witness ==
  \E w \in W :
    /\ job[w].pc = "idle"
    /\ job[w].result = "returned"
    /\ job[w].log = <<"noconn", "failed", "failed">>

\* C4: a session that an attempt opened is logged out before the attempt
\* ends: no session of a worker is open at the top of an attempt or after the
\* pass, and an open session belongs to the attempt in progress.
C4_SessionsClosed ==
  /\ \A w \in W :
       job[w].pc \in {"idle", "connect"} => ~(\E s \in open : s[1] = w)
  /\ \A s \in open : job[s[1]].attempt = s[2] /\ job[s[1]].imap_session

\* sessions have been closed after a failure, after an empty search and after
\* a complete attempt
C4_Witness ==
  \E w \in W :
    /\ job[w].pc = "idle"
    /\ open = {}
    /\ \E a, b \in 1..Len(job[w].log) :
         job[w].log[a] = "failed" /\ job[w].log[b] \in {"ok", "empty"}

\* C5: at most one run of fetch_emails is in progress and at most one session
\* is open at any time.
C5_OneSession == Cardinality(Running) <= 1 /\ Cardinality(open) <= 1

\* the second attempt of a pass holds the only open session while the timer
\* cannot start another run
C5_Witness ==
  \E w \in W :
    /\ job[w].attempt = 1
    /\ open = {<<w, 1>>}
    /\ ENABLED SkipPass
    /\ ~ENABLED StartPass

\* C6: whenever a pass has completed successfully, every key holds the value
\* it held when the first pass completed: processing the same messages again,
\* in a retried attempt or in a later pass, changes no value.
C6_Idempotent ==
  \A w \in W : (Completed(w) /\ first.n >= 1) => Values(store) = first.vals

\* a second pass has completed, after an attempt of it had failed
C6_Witness ==
  \E w \in W :
    /\ Completed(w)
    /\ first.n = 2
    /\ Len(job[w].log) >= 2
    /\ \E k \in Keys : store[k].val # None

\* the message a worker is processing
Current(w) == Msg(job[w].email_list[job[w].idx].email_id)

IsActivationLink(h) == Len(h) >= 2 /\ LowerChunk(h[1]) = ActivPrefix

\* the message matches neither rule, or is an activation message none of
\* whose HTML parts holds an activation link
NoResult(email_subject, m) ==
  /\ ~Contains(Lower(email_subject), VerifPattern)
  /\ \/ ~Contains(Lower(email_subject), ActivPattern)
     \/ \A i \in 1..Len(m.parts) :
          m.parts[i].ctype = "text/html" =>
            \A x \in 1..Len(m.parts[i].body) : ~IsActivationLink(m.parts[i].body[x])

\* C7: no step taken for a message that matches neither rule, or that has an
\* activation subject and no activation link in its HTML parts, changes the
\* store.
C7_NoResultNoWrite ==
  [][\A w \in W :
       (/\ job[w].pc \in {"process", "walk"}
        /\ job'[w] # job[w]
        /\ NoResult(job[w].email_list[job[w].idx].email_subject, Current(w)))
         => store' = store]_vars

\* the loop has gone past a message of each of the two sorts
C7_Witness ==
  \E w \in W :
    /\ Completed(w)
    /\ \E a, b \in 1..Len(mailbox) :
         /\ Msg(a).subject # None /\ Msg(b).subject # None
         /\ NoResult(DecodeSubject(Msg(a)), Msg(a))
         /\ NoResult(DecodeSubject(Msg(b)), Msg(b))
         /\ ~Contains(Lower(DecodeSubject(Msg(a))), ActivPattern)
         /\ Contains(Lower(DecodeSubject(Msg(b))), ActivPattern)

C9_Ttl ==
  \A k \in Keys :
    written[k] >= 0 =>
      /\ now >= written[k] + 172801 => retrieve_email_code(k).status = 404
      /\ now < written[k] + 172800 => retrieve_email_code(k).status = 200

\* one key is read a second before its two days are over, another after
C9_Witness ==
  \E k, l \in Keys :
    /\ written[k] >= 0
    /\ now = written[k] + 172799
    /\ retrieve_email_code(k).status = 200
    /\ written[l] >= 0
    /\ now >= written[l] + 172801
    /\ retrieve_email_code(l).status = 404

\* the store holds a value for the parameter: it is a key written at most
\* 172800 seconds ago
Holds(email_to) ==
  /\ email_to \in Keys
  /\ written[email_to] >= 0
  /\ now <= written[email_to] + 172800

Recognized(email_to) ==
  /\ email_to # <<>>
  /\ email_to[Len(email_to)] \in {"-verify", "-activate"}

C11_BareAddressReturnsBoth ==
  (Holds(<<u, "-verify">>) /\ Holds(<<u, "-activate">>)) =>
    LET r == retrieve_email_code(<<u>>)
    IN  /\ r.status = 200
        /\ \E i \in 1..Len(r.body) : r.body[i] = store[<<u, "-verify">>].val
        /\ \E i \in 1..Len(r.body) : r.body[i] = store[<<u, "-activate">>].val

\* C12: the loop writes at most once for a message in an attempt, also for
\* an activation message with several HTML parts that hold an activation link.
C12_OneWritePerMessage == \A w \in W : job[w].msgWrites <= 1

\* C13: loading a selected message whose Date header is missing or does not
\* parse can succeed: the message joins email_list and the attempt goes on.
C13_UndatedIncluded ==
  \A w \in W :
    (/\ job[w].pc = "fetch"
     /\ Msg(job[w].email_ids[Len(job[w].email_list) + 1]).subject # None
     /\ Msg(job[w].email_ids[Len(job[w].email_list) + 1]).date = None)
      => ENABLED (/\ Fetch(w)
                  /\ job'[w].exit # "except"
                  /\ Len(job'[w].email_list) = Len(job[w].email_list) + 1)

\* C14: a selected message with no To header is skipped alone: the step that
\* processes it writes nothing and the attempt goes on to the next message.
C14_NoToSkippedAlone ==
  \A w \in W :
    (job[w].pc = "process" /\ Current(w).to = None)
      => ENABLED (/\ Process(w)
                  /\ job'[w].exit # "except"
                  /\ store' = store)

\* C15: a failure of the logout that ends an attempt is swallowed: the step
\* that releases the session never makes fetch_emails raise, a successful
\* attempt still ends the pass as successful, and a failed attempt with budget
\* left is still followed by the next attempt.
C15_LogoutFailureSwallowed ==
  [][\A w \in W :
       (job[w].pc = "finally" /\ job'[w] # job[w]) =>
         /\ job'[w].result # "raised"
         /\ job[w].exit = "break" =>
              job'[w].pc = "idle" /\ Last(job'[w].log) = "ok"
         /\ (job[w].exit = "except" /\ job[w].attempt < retries - 1) =>
              job'[w].pc = "connect" /\ job'[w].attempt = job[w].attempt + 1]_vars

\* C16: the retry delay elapses between any two consecutive attempts of a
\* pass, also after an attempt that obtained no session: attempt number n
\* (counted from 0) starts only after n delays of retry_delay seconds.
C16_DelayBetweenAttempts ==
  \A w \in W :
    job[w].pc # "idle" => job[w].waited >= retry_delay * job[w].attempt

\* C17: no stage failure leaves fetch_emails: no step of the stages connect,
\* select, search, fetch, process or walk ends the pass with an exception.
C17_NoStageFailurePropagates ==
  [][\A w \in W :
       job[w].pc \in {"connect", "select", "search", "fetch", "process", "walk"}
         => job'[w].result # "raised"]_vars

\* the To address with every chunk in lower case
LowerCased(R) == [i \in 1..Len(R) |-> LowerChunk(R[i])]

\* worker w's step writes: the value it writes and the suffix of the key
Writes(w) ==
  /\ job[w].pc \in {"process", "walk"}
  /\ job'[w].attWrites = job[w].attWrites + 1

Produced(w) ==
  IF job[w].pc = "process"
  THEN FirstToken(job[w].email_list[job[w].idx].email_subject)
  ELSE Unescape(SearchLink(Current(w).parts[job[w].part].body))

Suffix(w) == IF job[w].pc = "process" THEN "-verify" ELSE "-activate"

\* right after a write for a message with To address R, the query for the
\* lower-cased R and the suffix is answered 200 with the value written, and
\* the query for R as it stands, when R is not in lower case, is answered 404
C18_WriteThenQuery ==
  \A w \in W :
    Writes(w) =>
      \E R \in {Current(w).to}, sfx \in {Suffix(w)}, value \in {Produced(w)} :
        /\ retrieve_email_code(LowerCased(R) \o <<sfx>>)'.status = 200
        /\ retrieve_email_code(LowerCased(R) \o <<sfx>>)'.body[2] = value
        /\ R # LowerCased(R) => retrieve_email_code(R \o <<sfx>>)'.status = 404

\* the answer for a key stays as it is while the key is not written again
\* and the entry has not expired
C18_AnswerStays ==
  \A k \in Keys :
    (/\ retrieve_email_code(k).status = 200
     /\ store'[k] = store[k]
     /\ now' <= store[k].exp)
      => retrieve_email_code(k)' = retrieve_email_code(k)

\* C18: every value a pass writes for a message with To address R is
\* returned with status 200 by a query for the lower-cased R followed by the
\* suffix, from the write until the entry expires or the key is written
\* again; the endpoint looks up the key as given, so R in its own case is
\* not found.
C18_RoundTrip == [][C18_WriteThenQuery /\ C18_AnswerStays]_vars

\* a code written for a message addressed to USER@Example.com is read back a
\* second before it expires under the lower-cased key, and not found under
\* the address as written
C18_Witness ==
  \E i \in 1..Len(mailbox) :
    /\ Msg(i).to = <<U>>
    /\ written[<<u, "-verify">>] >= 0
    /\ now = written[<<u, "-verify">>] + 172799
    /\ retrieve_email_code(<<u, "-verify">>).status = 200
    /\ retrieve_email_code(<<u, "-verify">>).body[2] \in Extracted(Msg(i))
    /\ retrieve_email_code(<<U, "-verify">>).status = 404

\* C19: a pass never changes the mailbox: no step sets a flag on a message or
\* removes one, so every search of a later attempt or pass selects all the
\* messages again.
C19_MailboxUnchanged ==
  [][/\ mailbox' = mailbox
     /\ seen' = seen
     /\ \A w \in W :
          (job[w].pc = "search" /\ job'[w].pc = "fetch")
            => Len(job'[w].email_ids) = Len(mailbox)]_vars

====
